---- MODULE Spec2Model ----
(***************************************************************************)
(* A model of img2panorama (src/main.py): main() scans a directory for     *)
(* image files, create_panorama() decodes them and calls the OpenCV        *)
(* stitcher once, and save_image() writes the result to                    *)
(* panorama_output.jpg.  The OpenCV calls (imread, Stitcher.stitch,        *)
(* imwrite) and os.listdir are the environment: their results are chosen   *)
(* nondeterministically, and every call is recorded.                       *)
(***************************************************************************)
EXTENDS Integers, Sequences, FiniteSets, TLC

(* ------------------------------ bounds --------------------------------- *)
\* most entries in one directory listing
MaxFiles == 3
\* pixel content of a raster is abstracted to one value in 0..MaxPixel
MaxPixel == 3
\* engine status values run from OK up to MaxStatus; those above the three
\* documented failure codes are the unrecognised ones
MaxStatus == 4

(* --------------------------- program constants ------------------------- *)
\* cv2.Stitcher_OK
OK == 0
\* quantisation step of the lossy JPEG encoder that the ".jpg" suffix selects
JpegQ == 2

None == [kind |-> "None"]

\* file names are sequences of characters
a_jpg  == <<"a", ".", "j", "p", "g">>
b_png  == <<"b", ".", "p", "n", "g">>
c_txt  == <<"c", ".", "t", "x", "t">>
D_JPEG == <<"D", ".", "J", "P", "E", "G">>
jpg    == <<"j", "p", "g">>
dotPNG == <<".", "P", "N", "G">>
Names  == {a_jpg, b_png, c_txt, D_JPEG, jpg, dotPNG}

\* the --input_dir argument, with and without a trailing separator
Directories == {<<"d">>, <<"d", "/">>}

\* os.listdir: distinct names, in the order the system returns them
Listings ==
    {s \in UNION {[1..n -> Names] : n \in 0..MaxFiles} :
        \A x, y \in 1..Len(s) : x # y => s[x] # s[y]}

(* ------------------------------ rasters -------------------------------- *)
Raster(v) == [kind |-> "ndarray", px |-> v]
Rasters == {Raster(v) : v \in 0..MaxPixel}

\* cv2.imread of a readable file: the raster decoded from that path
Decoded(path) == [kind |-> "ndarray", src |-> path]

\* cv2.imread returns the decoded raster, or None when the file cannot be read
ImreadResults(path) == {Decoded(path), None}

\* the status codes Stitcher.stitch can hand back
Statuses == OK..MaxStatus

\* Stitcher.stitch returns a raster with OK; the second component is not
\* specified by the binding for any other status
EngineOutputs(st) == IF st = OK THEN Rasters ELSE Rasters \cup {None}

(* -------------------------- destination file --------------------------- *)
Absent == [kind |-> "absent"]
Truncated == [kind |-> "truncated"]
output_file == "panorama_output.jpg"

\* the JPEG encoder is lossy: it keeps the quantised pixel content
JpegEncode(image) == [kind |-> "jpeg", data |-> image.px \div JpegQ]
\* reading a JPEG file back yields the dequantised raster
JpegDecode(file) == Raster(file.data * JpegQ)

\* cv2.imwrite returns True with the encoded file in place, or False with the
\* destination either untouched (it could not be opened) or cut short
ImwriteOutcomes(old, image) ==
    {[ret |-> TRUE, file |-> JpegEncode(image)],
     [ret |-> FALSE, file |-> old],
     [ret |-> FALSE, file |-> Truncated]}

PriorContents == {Absent, JpegEncode(Raster(0))}

(* ------------------------------ scan_images ---------------------------- *)
LowerChar(c) ==
    CASE c = "D" -> "d" [] c = "J" -> "j" [] c = "P" -> "p" [] c = "E" -> "e"
      [] c = "G" -> "g" [] c = "N" -> "n" [] OTHER -> c

\* str.lower
lower(f) == [k \in 1..Len(f) |-> LowerChar(f[k])]

supported_extensions ==
    {<<".", "j", "p", "g">>, <<".", "j", "p", "e", "g">>, <<".", "p", "n", "g">>}

\* str.endswith with a tuple of suffixes
endswith(f, suffixes) ==
    \E s \in suffixes :
        /\ Len(s) <= Len(f)
        /\ SubSeq(f, Len(f) - Len(s) + 1, Len(f)) = s

\* plausible slip: the name is matched without lower-casing it
is_image_CaseSensitive(f) == endswith(f, supported_extensions)

\* the filter of the list comprehension
is_image(f) == endswith(lower(f), supported_extensions)

\* os.path.join(directory, f) for a name without a separator
path_join(d, f) ==
    IF d = <<>> THEN f
    ELSE IF d[Len(d)] = "/" THEN d \o f
    ELSE d \o <<"/">> \o f

RECURSIVE scan_images(_, _)
scan_images(d, names) ==
    IF names = <<>> THEN <<>>
    ELSE IF is_image(Head(names))
         THEN <<path_join(d, Head(names))>> \o scan_images(d, Tail(names))
         ELSE scan_images(d, Tail(names))

(* ------------------------------- logging ------------------------------- *)
Entry(level, msg, arg) == [level |-> level, msg |-> msg, arg |-> arg]

NoImagesWarning == Entry("WARNING", "No image files found in the directory.", <<>>)
NoImagesError == Entry("ERROR", "No images found to process. Exiting program.", <<>>)
StitchingInfo(n) == Entry("INFO", "Stitching {} images into a panorama.", <<n>>)
CreatedInfo == Entry("INFO", "Panorama successfully created.", <<>>)
SavedInfo(file_name) == Entry("INFO", "Panorama saved as {}", <<file_name>>)
FailedError == Entry("ERROR", "Failed to create a panorama.", <<>>)

\* plausible change: the message names the first entry that failed to decode
LoadErrorNaming(files, imgs) ==
    Entry("ERROR", "Could not load {}",
          <<files[CHOOSE k \in 1..Len(imgs) :
                /\ imgs[k] = None
                /\ \A m \in 1..(k - 1) : imgs[m] # None]>>)

\* the error logged when a decode failed
LoadError(files, imgs) ==
    Entry("ERROR", "One or more images could not be loaded.", <<>>)

\* plausible slip: the code is left out of the message
StitchErrorNoCode(st) == Entry("ERROR", "Failed to stitch images", <<>>)

\* the error logged for a status other than OK
StitchError(st) == Entry("ERROR", "Failed to stitch images, error code: {}", <<st>>)

(* --------------------------- the conditions ---------------------------- *)
\* plausible slip: main goes on with an empty list
no_images_Never(files) == FALSE

\* `not image_files`
no_images(files) == files = <<>>

\* plausible slip: only the first image is tested
any_none_FirstOnly(imgs) == imgs # <<>> /\ imgs[1] = None

\* any(img is None for img in images)
any_none(imgs) == \E k \in 1..Len(imgs) : imgs[k] = None

\* plausible slip: the loop stops one short of the list
all_read_OneShort(files, imgs) == Len(imgs) >= Len(files) - 1

\* the list comprehension of imread calls has consumed every path
all_read(files, imgs) == Len(imgs) = Len(files)

\* plausible slip: only the documented failure codes are tested
stitch_failed_KnownOnly(st) == st \in 1..3

\* status != cv2.Stitcher_OK
stitch_failed(st) == st # OK

\* plausible slip: the raster held before the call is written
image_to_save_Stale(pano, old) ==
    IF old = Absent \/ old = Truncated THEN Raster(0) ELSE JpegDecode(old)

\* the raster save_image hands to cv2.imwrite
image_to_save(pano, old) == pano

(* -------------------------------- state -------------------------------- *)
VARIABLES
    pc,            \* position of the run in main / create_panorama
    directory,     \* args.input_dir
    listing,       \* what os.listdir(directory) returns
    dest_before,   \* content of panorama_output.jpg when the run starts
    fs_dest,       \* content of panorama_output.jpg now
    image_files,   \* main's image_files
    images,        \* create_panorama's images, as far as they are read
    status,        \* status returned by stitcher.stitch
    stitched,      \* raster returned by stitcher.stitch
    panorama,      \* main's panorama (the value create_panorama returned)
    returned,      \* TRUE once create_panorama has returned
    log,           \* the records handed to logging
    imread_calls,  \* arguments of the cv2.imread calls
    engine_calls,  \* arguments of the stitcher.stitch calls
    imwrite_calls, \* arguments and return value of the cv2.imwrite calls
    exit_status    \* <<>> while running, <<code>> once the process has ended

vars == <<pc, directory, listing, dest_before, fs_dest, image_files, images,
          status, stitched, panorama, returned, log, imread_calls,
          engine_calls, imwrite_calls, exit_status>>

env == <<directory, listing, dest_before>>

Init ==
    /\ pc = "main"
    /\ directory \in Directories
    /\ listing \in Listings
    /\ dest_before \in PriorContents
    /\ fs_dest = dest_before
    /\ image_files = <<>>
    /\ images = <<>>
    /\ status = OK
    /\ stitched = None
    /\ panorama = None
    /\ returned = FALSE
    /\ log = <<>>
    /\ imread_calls = <<>>
    /\ engine_calls = <<>>
    /\ imwrite_calls = <<>>
    /\ exit_status = <<>>

(* ------------------------------- actions ------------------------------- *)
\* main line 60 and scan_images: list, filter, join, warn when empty
ScanImages ==
    /\ pc = "main"
    /\ image_files' = scan_images(directory, listing)
    /\ log' = IF image_files' = <<>> THEN Append(log, NoImagesWarning) ELSE log
    /\ pc' = "main_check"
    /\ UNCHANGED <<env, fs_dest, images, status, stitched, panorama, returned,
                   imread_calls, engine_calls, imwrite_calls, exit_status>>

\* main lines 62-64: nothing to process
MainNoImages ==
    /\ pc = "main_check"
    /\ no_images(image_files)
    /\ log' = Append(log, NoImagesError)
    /\ pc' = "return"
    /\ UNCHANGED <<env, fs_dest, image_files, images, status, stitched,
                   panorama, returned, imread_calls, engine_calls,
                   imwrite_calls, exit_status>>

\* main line 67 and create_panorama line 13
CreatePanorama ==
    /\ pc = "main_check"
    /\ ~no_images(image_files)
    /\ log' = Append(log, StitchingInfo(Len(image_files)))
    /\ pc' = "imread"
    /\ UNCHANGED <<env, fs_dest, image_files, images, status, stitched,
                   panorama, returned, imread_calls, engine_calls,
                   imwrite_calls, exit_status>>

\* create_panorama line 16: one cv2.imread of the list comprehension
Imread ==
    /\ pc = "imread"
    /\ ~all_read(image_files, images)
    /\ Len(images) < Len(image_files)
    /\ LET path == image_files[Len(images) + 1] IN
         /\ \E img \in ImreadResults(path) : images' = Append(images, img)
         /\ imread_calls' = Append(imread_calls, path)
    /\ UNCHANGED <<pc, env, fs_dest, image_files, status, stitched, panorama,
                   returned, log, engine_calls, imwrite_calls, exit_status>>

\* create_panorama lines 18-20: some image is None
LoadFailed ==
    /\ pc = "imread"
    /\ all_read(image_files, images)
    /\ any_none(images)
    /\ log' = Append(log, LoadError(image_files, images))
    /\ panorama' = None
    /\ returned' = TRUE
    /\ pc' = "main_result"
    /\ UNCHANGED <<env, fs_dest, image_files, images, status, stitched,
                   imread_calls, engine_calls, imwrite_calls, exit_status>>

\* create_panorama lines 23-26: the one call of the stitcher
Stitch ==
    /\ pc = "imread"
    /\ all_read(image_files, images)
    /\ ~any_none(images)
    /\ engine_calls' = Append(engine_calls, images)
    /\ \E st \in Statuses :
         /\ status' = st
         /\ stitched' \in EngineOutputs(st)
    /\ pc' = "status_check"
    /\ UNCHANGED <<env, fs_dest, image_files, images, panorama, returned, log,
                   imread_calls, imwrite_calls, exit_status>>

\* create_panorama lines 28-30: any status but OK
StitchFailed ==
    /\ pc = "status_check"
    /\ stitch_failed(status)
    /\ log' = Append(log, StitchError(status))
    /\ panorama' = None
    /\ returned' = TRUE
    /\ pc' = "main_result"
    /\ UNCHANGED <<env, fs_dest, image_files, images, status, stitched,
                   imread_calls, engine_calls, imwrite_calls, exit_status>>

\* create_panorama lines 32-33: the stitched raster is returned
Stitched ==
    /\ pc = "status_check"
    /\ ~stitch_failed(status)
    /\ log' = Append(log, CreatedInfo)
    /\ panorama' = stitched
    /\ returned' = TRUE
    /\ pc' = "main_result"
    /\ UNCHANGED <<env, fs_dest, image_files, images, status, stitched,
                   imread_calls, engine_calls, imwrite_calls, exit_status>>

\* main lines 69-71 and save_image: imwrite, its result dropped, then the log
SaveImage ==
    /\ pc = "main_result"
    /\ panorama # None
    /\ LET image == image_to_save(panorama, fs_dest) IN
         \E out \in ImwriteOutcomes(fs_dest, image) :
            /\ fs_dest' = out.file
            /\ imwrite_calls' = Append(imwrite_calls,
                  [file_name |-> output_file, image |-> image, ret |-> out.ret])
    /\ log' = Append(log, SavedInfo(output_file))
    /\ pc' = "return"
    /\ UNCHANGED <<env, image_files, images, status, stitched, panorama,
                   returned, imread_calls, engine_calls, exit_status>>

\* main lines 72-73: create_panorama returned None
MainFailed ==
    /\ pc = "main_result"
    /\ panorama = None
    /\ log' = Append(log, FailedError)
    /\ pc' = "return"
    /\ UNCHANGED <<env, fs_dest, image_files, images, status, stitched,
                   panorama, returned, imread_calls, engine_calls,
                   imwrite_calls, exit_status>>

\* lines 75-76: main returns and the interpreter ends with status 0
Exit ==
    /\ pc = "return"
    /\ exit_status' = <<0>>
    /\ pc' = "done"
    /\ UNCHANGED <<env, fs_dest, image_files, images, status, stitched,
                   panorama, returned, log, imread_calls, engine_calls,
                   imwrite_calls>>

Next ==
    \/ ScanImages
    \/ MainNoImages
    \/ CreatePanorama
    \/ Imread
    \/ LoadFailed
    \/ Stitch
    \/ StitchFailed
    \/ Stitched
    \/ SaveImage
    \/ MainFailed
    \/ Exit

Spec == Init /\ [][Next]_vars

(* ------------------------ reading the run ------------------------------ *)
AfterLoad == pc \in {"status_check", "main_result", "return", "done"}
AfterCreate == pc \in {"main_result", "return", "done"}

\* some imread call of this run returned None
DecodeFailed == \E k \in 1..Len(images) : images[k] = None

\* the stitcher has returned a status other than OK
EngineFailed == AfterLoad /\ engine_calls # <<>> /\ status # OK

\* the stitcher has returned OK
EngineOk == AfterLoad /\ engine_calls # <<>> /\ status = OK

\* the decoded set, one raster per discovered path, in discovery order
FullImageSet == [k \in 1..Len(image_files) |-> [kind |-> "ndarray", src |-> image_files[k]]]

ErrorsLogged == SelectSeq(log, LAMBDA e : e.level = "ERROR")

SavedReported == \E k \in 1..Len(log) : log[k].msg = "Panorama saved as {}"

\* what a read of the destination yields
ReadBack(file) == IF file.kind = "jpeg" THEN JpegDecode(file) ELSE None

(* -------------------------------- claims ------------------------------- *)
\* C1: once any discovered path has failed to decode, the stitcher is never
\* called and nothing is written, and create_panorama returns None.
C1_NoStitchAfterDecodeFailure ==
    DecodeFailed =>
        /\ engine_calls = <<>>
        /\ imwrite_calls = <<>>
        /\ fs_dest = dest_before
        /\ AfterLoad => (pc # "status_check" /\ returned /\ panorama = None)

C1_Witness ==
    /\ pc = "done"
    /\ Len(images) >= 2
    /\ images[1] # None
    /\ images[2] = None

\* C2: for every status other than OK, the unrecognised ones included, the
\* writer is never called and the destination keeps its content.
C2_NoWriteAfterEngineFailure ==
    EngineFailed =>
        /\ imwrite_calls = <<>>
        /\ fs_dest = dest_before
        /\ AfterCreate => panorama = None

C2_Witness ==
    /\ pc = "done"
    /\ engine_calls # <<>>
    /\ status > 3
    /\ stitched # None
    /\ dest_before # Absent

\* C3: with an empty discovery result the run ends with the input error and
\* performs no decode, no stitcher call and no write.
C3_EmptyDiscoveryStops ==
    (pc # "main" /\ image_files = <<>>) =>
        /\ imread_calls = <<>>
        /\ engine_calls = <<>>
        /\ imwrite_calls = <<>>
        /\ fs_dest = dest_before
        /\ pc \in {"main_check", "return", "done"}
        /\ pc \in {"return", "done"} =>
              ErrorsLogged = <<[level |-> "ERROR",
                                msg |-> "No images found to process. Exiting program.",
                                arg |-> <<>>]>>

C3_Witness ==
    /\ pc = "done"
    /\ image_files = <<>>
    /\ Len(listing) >= 2

\* C4 as stated: after an OK run the panorama is the stitcher's raster, the
\* writer got it, and a read of the destination yields that same raster.
C4_RoundTripIdentical ==
    (pc = "done" /\ EngineOk) =>
        /\ panorama # None
        /\ panorama = stitched
        /\ Len(imwrite_calls) = 1
        /\ imwrite_calls[1].image = stitched
        /\ ReadBack(fs_dest) = stitched

\* C4 amended: after an OK run the panorama is the stitcher's raster and the
\* writer is called once with it; when the image write succeeds the
\* destination holds its JPEG encoding, and a read yields the quantised raster.
C4_RoundTripJpeg ==
    (pc \in {"return", "done"} /\ EngineOk) =>
        /\ panorama # None
        /\ panorama = stitched
        /\ Len(imwrite_calls) = 1
        /\ imwrite_calls[1].image = stitched
        /\ imwrite_calls[1].file_name = "panorama_output.jpg"
        /\ imwrite_calls[1].ret =>
              /\ fs_dest.kind = "jpeg"
              /\ fs_dest.data = stitched.px \div JpegQ
              /\ ReadBack(fs_dest).px = (stitched.px \div JpegQ) * JpegQ

C4_Witness ==
    /\ pc = "done"
    /\ EngineOk
    /\ Len(images) >= 2
    /\ imwrite_calls # <<>>
    /\ imwrite_calls[1].ret
    /\ ReadBack(fs_dest) # stitched

RunErrored ==
    \/ image_files = <<>>
    \/ DecodeFailed
    \/ EngineFailed
    \/ \E k \in 1..Len(imwrite_calls) : ~imwrite_calls[k].ret

\* C6 as stated: a run that ended in an error has a non-zero exit status and
\* left no output; only a run that wrote the output exits with zero.
C6_ErrorExitNonZero ==
    pc = "done" =>
        /\ RunErrored => (exit_status # <<0>> /\ fs_dest = dest_before)
        /\ exit_status = <<0>> =>
              (imwrite_calls # <<>> /\ imwrite_calls[1].ret)

\* C7 as stated: when the image write reports failure the run does not
\* report the panorama as saved.
C7_WriteFailureReported ==
    (imwrite_calls # <<>> /\ ~imwrite_calls[1].ret) => ~SavedReported

StageRank(p) ==
    CASE p = "main" -> 0
      [] p = "main_check" -> 1
      [] p = "imread" -> 2
      [] p = "status_check" -> 3
      [] p = "main_result" -> 4
      [] p = "return" -> 5
      [] p = "done" -> 6

\* C8: every step moves the run forward (loading repeats only to read the
\* next image), the stitcher is called at most once and then with the full
\* decoded set in discovery order, exactly once when everything is loaded,
\* the writer at most once and only after OK, and nothing follows a failure.
C8_StageOrder ==
    [][ /\ pc' # pc => StageRank(pc') > StageRank(pc)
        /\ pc' = pc => (pc = "imread" /\ Len(images') = Len(images) + 1)
        /\ Len(engine_calls') <= 1
        /\ Len(imwrite_calls') <= 1
        /\ engine_calls' # engine_calls =>
              (pc = "imread" /\ engine_calls' = <<FullImageSet>>)
        /\ (StageRank(pc') >= 3 /\ image_files' # <<>> /\ ~DecodeFailed') =>
              engine_calls' = <<FullImageSet>>
        /\ imwrite_calls' # imwrite_calls =>
              (Len(engine_calls) = 1 /\ status = OK /\ pc = "main_result")
        /\ (returned /\ panorama = None) =>
              /\ pc' \in {"return", "done"}
              /\ UNCHANGED <<imread_calls, engine_calls, imwrite_calls,
                             images, fs_dest>>
      ]_vars

C8_Witness ==
    /\ pc = "done"
    /\ Len(images) >= 2
    /\ Len(engine_calls) = 1
    /\ Len(imwrite_calls) = 1

\* names of the listing alphabet that carry a recognised extension
RecognisedNames == {a_jpg, b_png, D_JPEG, dotPNG}

\* C9: scan_images returns exactly the listed names with a recognised
\* extension (compared in lower case), joined to the directory, in listing
\* order; a.jpg, b.png, c.txt yields [a.jpg, b.png].
C9_ScanFilters ==
    pc # "main" =>
        LET kept == {k \in 1..Len(listing) : listing[k] \in RecognisedNames}
            pos(j) == CHOOSE k \in kept : Cardinality({m \in kept : m <= k}) = j
        IN /\ Len(image_files) = Cardinality(kept)
           /\ \A j \in 1..Len(image_files) :
                 image_files[j] = <<"d", "/">> \o listing[pos(j)]
           /\ listing = <<a_jpg, b_png, c_txt>> =>
                 image_files = << <<"d", "/", "a", ".", "j", "p", "g">>,
                                  <<"d", "/", "b", ".", "p", "n", "g">> >>

C9_Witness ==
    /\ pc = "done"
    /\ listing = <<c_txt, D_JPEG, a_jpg>>
    /\ image_files = << <<"d", "/", "D", ".", "J", "P", "E", "G">>,
                        <<"d", "/", "a", ".", "j", "p", "g">> >>

====
